---- MODULE Spec2Model ----
(***************************************************************************)
(* Model of guidata/configtools.py: the image path registry IMG_PATH, the  *)
(* icon cache ICON_CACHE, image name resolution, and the construction of   *)
(* fonts, pens and brushes from a configuration store.                     *)
(*                                                                         *)
(* A filesystem path is a sequence of components; an absolute path starts  *)
(* with the component "/".  A character string that the code slices or     *)
(* searches (an option name, a configuration key) is a sequence of         *)
(* one-character strings.                                                  *)
(***************************************************************************)
EXTENDS Integers, Sequences, FiniteSets, TLC

VARIABLES IMG_PATH, ICON_CACHE, built, returned, failed, last,
          conf, installed, osname, lastconf

vars == <<IMG_PATH, ICON_CACHE, built, returned, failed, last,
          conf, installed, osname, lastconf>>

imgvars == <<IMG_PATH, ICON_CACHE, built, returned, failed, last>>

confvars == <<conf, installed, osname, lastconf>>

(***************************************************************************)
(* Bounds of the model.                                                    *)
(***************************************************************************)
MaxPathLen == 3

MaxIcons == 2

(***************************************************************************)
(* Python's None, and the absence of a path / of an icon.                  *)
(***************************************************************************)
None == "None"

NoPath == <<>>

\* an icon object: the serial-th QIcon built for name, from file
NoIcon == [name |-> None, serial |-> 0, file |-> NoPath]

(***************************************************************************)
(* The filesystem the program runs on: directories, plain files, and the   *)
(* current working directory.                                              *)
(***************************************************************************)
Dirs ==
    { <<"/">>,
      <<"/", "home">>, <<"/", "home", "pics">>,
      <<"/", "img">>, <<"/", "img", "icons">>, <<"/", "img", "icons", "deep">>,
      <<"/", "img", "extra">>, <<"/", "img", "extra", "x.png">>,
      <<"/", "lib">>, <<"/", "lib", "mod2">>, <<"/", "lib", "mod2", "icons">>,
      <<"/", "app">>, <<"/", "app", "mod3">> }

Files ==
    { <<"/", "home", "pics", "x.png">>,
      <<"/", "img", "x.png">>,
      <<"/", "img", "icons", "x.png">>,
      <<"/", "img", "icons", "y.png">>,
      <<"/", "img", "icons", "deep", "y.png">>,
      <<"/", "img", "extra", "not_found.png">>,
      <<"/", "lib", "mod2", "icons", "not_found.png">>,
      <<"/", "app", "library.zip">> }

CWD == <<"/", "home">>

pardir == <<"..">>

(***************************************************************************)
(* os.path (posixpath) on component sequences.                             *)
(***************************************************************************)
isabs(p) == Len(p) > 0 /\ p[1] = "/"

join(a, b) == IF isabs(b) THEN b ELSE a \o b

RECURSIVE norm(_, _)
norm(todo, done) ==
    IF todo = <<>> THEN done
    ELSE LET c == Head(todo)
             rest == Tail(todo)
         IN  IF c = "." \/ c = "" THEN norm(rest, done)
             ELSE IF c = ".."
                  THEN IF done = <<"/">> THEN norm(rest, done)
                       ELSE IF done = <<>> \/ done[Len(done)] = ".."
                            THEN norm(rest, Append(done, c))
                            ELSE norm(rest, SubSeq(done, 1, Len(done) - 1))
                  ELSE norm(rest, Append(done, c))

normpath(p) ==
    IF isabs(p) THEN norm(Tail(p), <<"/">>)
    ELSE LET r == norm(p, <<>>) IN IF r = <<>> THEN <<".">> ELSE r

abspath(p) == normpath(IF isabs(p) THEN p ELSE join(CWD, p))

isfile(p) == abspath(p) \in Files

isdir(p) == abspath(p) \in Dirs

\* the names os.listdir(path) returns, as a set; the order is the caller's choice
listdir_names(path) ==
    LET ap == abspath(path)
    IN  { q[Len(q)] : q \in { e \in Dirs \cup Files :
                                /\ Len(e) = Len(ap) + 1
                                /\ SubSeq(e, 1, Len(ap)) = ap } }

\* every order in which os.listdir may return the names
Listings(path) ==
    LET S == listdir_names(path)
    IN  { s \in [1..Cardinality(S) -> S] : \A i, j \in 1..Cardinality(S) : i # j => s[i] # s[j] }

(***************************************************************************)
(* sys.modules: the imported modules, their DATAPATH attribute ("" when    *)
(* the module has none) and the directory of their __file__.               *)
(***************************************************************************)
Modules == {"mod1", "mod2", "mod3"}

DATAPATH(modname) == IF modname = "mod1" THEN <<"/", "img">> ELSE <<>>

get_module_path(modname) ==
    CASE modname = "mod1" -> <<"/", "lib", "mod1">>
      [] modname = "mod2" -> <<"/", "lib", "mod2">>
      [] OTHER            -> <<"/", "app", "library.zip", modname>>

get_module_data_path(modname, relpath) ==
    LET attr == DATAPATH(modname)
        modpath == get_module_path(modname)
        parentdir == normpath(join(modpath, pardir))
        datapath == IF attr # <<>> THEN attr
                    ELSE IF isfile(parentdir)
                         THEN abspath(join(join(parentdir, pardir), <<modname>>))
                         ELSE modpath
    IN  IF relpath # None THEN abspath(join(datapath, relpath)) ELSE datapath

(***************************************************************************)
(* add_image_path: the entries one call appends to IMG_PATH, given the     *)
(* listing os.listdir returned.                                            *)
(***************************************************************************)
\* subdirs as it would be without the osp.isdir test
subdirs_unfiltered(path, listing) ==
    [i \in 1..Len(listing) |-> join(path, <<listing[i]>>)]

subdirs(path, listing) ==
    LET pths == [i \in 1..Len(listing) |-> join(path, <<listing[i]>>)]
    IN  SelectSeq(pths, isdir)

add_image_path_entries(path, subfolders, listing) ==
    IF subfolders THEN <<path>> \o subdirs(path, listing) ELSE <<path>>

(***************************************************************************)
(* get_image_file_path.  scan is the for loop over IMG_PATH.  In a result, *)
(* probed is the number of directories the call's own loop tested, calls   *)
(* the number of nested calls made, resolved the name the returned path    *)
(* was found under, and msg the argument of the RuntimeError raised.       *)
(***************************************************************************)
\* scan as it would be if a later directory overrode an earlier one
RECURSIVE scan_last_match(_, _, _)
scan_last_match(imgp, name, i) ==
    IF i > Len(imgp) THEN [found |-> FALSE, path |-> NoPath, probed |-> Len(imgp)]
    ELSE LET full_path == join(imgp[i], <<name>>)
             later == scan_last_match(imgp, name, i + 1)
         IN  IF later.found THEN later
             ELSE IF isfile(full_path)
                  THEN [found |-> TRUE, path |-> abspath(full_path), probed |-> Len(imgp)]
                  ELSE later

RECURSIVE scan(_, _, _)
scan(imgp, name, i) ==
    IF i > Len(imgp) THEN [found |-> FALSE, path |-> NoPath, probed |-> Len(imgp)]
    ELSE LET full_path == join(imgp[i], <<name>>)
         IN  IF isfile(full_path)
             THEN [found |-> TRUE, path |-> abspath(full_path), probed |-> i]
             ELSE scan(imgp, name, i + 1)

\* nested_default as it would be if the nested call kept its fallback
nested_default_kept(name, default) == IF name # default THEN default ELSE None

\* the default the nested call is given
nested_default(name, default) == None

RECURSIVE get_image_file_path(_, _, _)

\* get_image_file_path as it would be without the retry against default
get_image_file_path_no_retry(imgp, name, default) ==
    LET r == scan(imgp, name, 1)
    IN  IF r.found
        THEN [exc |-> "none", msg |-> None, path |-> r.path,
              probed |-> r.probed, calls |-> 0, resolved |-> name]
        ELSE [exc |-> "RuntimeError", msg |-> name, path |-> NoPath,
              probed |-> r.probed, calls |-> 0, resolved |-> None]

get_image_file_path(imgp, name, default) ==
    LET r == scan(imgp, name, 1)
    IN  IF r.found
        THEN [exc |-> "none", msg |-> None, path |-> r.path,
              probed |-> r.probed, calls |-> 0, resolved |-> name]
        ELSE IF default # None
             THEN LET n == get_image_file_path(imgp, default, nested_default(name, default))
                  IN  IF n.exc = "RuntimeError"
                      THEN [exc |-> "RuntimeError", msg |-> name, path |-> NoPath,
                            probed |-> r.probed, calls |-> n.calls + 1, resolved |-> None]
                      ELSE [n EXCEPT !.calls = @ + 1, !.probed = r.probed]
             ELSE [exc |-> "RuntimeError", msg |-> None, path |-> NoPath,
                   probed |-> r.probed, calls |-> 0, resolved |-> None]


(***************************************************************************)
(* Inputs of the image operations.  Image names are plain file names       *)
(* ("name, default: filenames with extensions").                           *)
(***************************************************************************)
Names == {"x.png", "y.png", "not_found.png"}

Defaults == {"not_found.png", None}

AddPaths == { <<"/", "img">>, <<"/", "img", "icons">>, <<"/", "img", "extra">>, <<"pics">> }

RelPaths == { <<"icons">> }

IconAddPaths == { <<"/", "img", "icons">> }

IconModules == {"mod2"}

NoResult == [exc |-> "none", msg |-> None, path |-> NoPath,
             probed |-> 0, calls |-> 0, resolved |-> None]

NoLast == [op |-> "init", name |-> None, default |-> None, res |-> NoResult,
           icon |-> NoIcon, before |-> <<>>, added |-> <<>>, subfolders |-> FALSE,
           listing |-> <<>>, path |-> NoPath]

ImgInit ==
    /\ IMG_PATH = <<>>
    /\ ICON_CACHE = [n \in Names |-> NoIcon]
    /\ built = [n \in Names |-> 0]
    /\ returned = [n \in Names |-> NoIcon]
    /\ failed = {}
    /\ last = NoLast

(***************************************************************************)
(* The image operations.  built, returned and failed are history: the      *)
(* number of icons get_icon built for a name, the first icon it returned   *)
(* for a name, and the names for which a get_icon call raised.             *)
(***************************************************************************)
\* appended as it would be if new entries took precedence
appended_in_front(imgp, entries) == entries \o imgp

\* IMG_PATH.append, for the entries of one call
appended(imgp, entries) == imgp \o entries

\* the body of add_image_path, for a path that is a str (a bytes path is first
\* decoded by decode_fs_string and is not among the inputs); os.listdir raises OSError, after path has been
\* appended, when path is not a directory
do_add_image_path(op, path, subfolders, listing) ==
    LET ok == ~subfolders \/ isdir(path)
        entries == IF ok THEN add_image_path_entries(path, subfolders, listing)
                   ELSE <<path>>
    IN  /\ Len(IMG_PATH) + Len(entries) <= MaxPathLen
        /\ IMG_PATH' = appended(IMG_PATH, entries)
        /\ last' = [NoLast EXCEPT !.op = op, !.before = IMG_PATH, !.added = entries,
                                  !.subfolders = subfolders, !.listing = listing,
                                  !.path = path,
                                  !.res = [NoResult EXCEPT !.exc = IF ok THEN "none" ELSE "OSError"]]
        /\ UNCHANGED <<ICON_CACHE, built, returned, failed>>

add_image_path(paths) ==
    \E path \in paths, subfolders \in BOOLEAN :
        \E listing \in (IF subfolders /\ isdir(path) THEN Listings(path) ELSE {<<>>}) :
            do_add_image_path("add_image_path", path, subfolders, listing)

add_image_module_path(modnames) ==
    \E modname \in modnames, relpath \in RelPaths, subfolders \in BOOLEAN :
        LET path == get_module_data_path(modname, relpath)
        IN  \E listing \in (IF subfolders /\ isdir(path) THEN Listings(path) ELSE {<<>>}) :
                do_add_image_path("add_image_module_path", path, subfolders, listing)

call_get_image_file_path ==
    \E name \in Names, default \in Defaults :
        /\ last' = [NoLast EXCEPT !.op = "get_image_file_path", !.name = name,
                                  !.default = default,
                                  !.res = get_image_file_path(IMG_PATH, name, default)]
        /\ UNCHANGED <<IMG_PATH, ICON_CACHE, built, returned, failed>>

\* QIcon(filename) builds a new object on every call
QIcon(name, file) == [name |-> name, serial |-> built[name] + 1, file |-> file]

\* cache_hit as it would be if an entry were dropped once name resolves elsewhere
cache_hit_if_current(name) ==
    /\ ICON_CACHE[name] # NoIcon
    /\ get_image_file_path(IMG_PATH, name, None).path = ICON_CACHE[name].file

\* the try branch of get_icon: is the cached object returned
cache_hit(name) == ICON_CACHE[name] # NoIcon

\* ICON_CACHE after get_icon has built icon for name
cache_store(name, icon) == [ICON_CACHE EXCEPT ![name] = icon]

\* cache_after_failure as it would be if a null icon were stored for name
cache_after_failure_null(name) ==
    [ICON_CACHE EXCEPT ![name] = [name |-> name, serial |-> 0, file |-> NoPath]]

\* ICON_CACHE after get_image_file_path has raised inside get_icon
cache_after_failure(name) == ICON_CACHE

get_icon ==
    \E name \in Names, default \in Defaults :
        IF cache_hit(name)
        THEN /\ last' = [NoLast EXCEPT !.op = "get_icon", !.name = name,
                                       !.default = default,
                                       !.icon = ICON_CACHE[name]]
             /\ UNCHANGED <<IMG_PATH, ICON_CACHE, built, returned, failed>>
        ELSE LET res == get_image_file_path(IMG_PATH, name, default)
                 icon == QIcon(name, res.path)
             IN  IF res.exc = "none"
                 THEN /\ built[name] < MaxIcons
                      /\ ICON_CACHE' = cache_store(name, icon)
                      /\ built' = [built EXCEPT ![name] = @ + 1]
                      /\ returned' = [returned EXCEPT ![name] =
                                         IF @ = NoIcon THEN icon ELSE @]
                      /\ last' = [NoLast EXCEPT !.op = "get_icon", !.name = name,
                                                !.default = default,
                                                !.res = res, !.icon = icon]
                      /\ UNCHANGED <<IMG_PATH, failed>>
                 ELSE /\ failed' = failed \cup {name}
                      /\ ICON_CACHE' = cache_after_failure(name)
                      /\ last' = [NoLast EXCEPT !.op = "get_icon", !.name = name,
                                                !.default = default,
                                                !.res = res]
                      /\ UNCHANGED <<IMG_PATH, built, returned>>

\* get_image_label: a QLabel showing the pixmap of the resolved file
get_image_label ==
    \E name \in Names, default \in Defaults :
        /\ last' = [NoLast EXCEPT !.op = "get_image_label", !.name = name,
                                  !.default = default,
                                  !.res = get_image_file_path(IMG_PATH, name, default)]
        /\ UNCHANGED <<IMG_PATH, ICON_CACHE, built, returned, failed>>

(***************************************************************************)
(* Character strings: option names and configuration keys.                 *)
(***************************************************************************)
s_empty == <<>>

s_font == <<"f", "o", "n", "t">>

s_slash_font == <<"/", "f", "o", "n", "t">>

s_pen == <<"p", "e", "n">>

s_slash_pen == <<"/", "p", "e", "n">>

s_brush == <<"b", "r", "u", "s", "h">>

s_slash_brush == <<"/", "b", "r", "u", "s", "h">>

s_family == <<"/", "f", "a", "m", "i", "l", "y">>

s_family_nt == <<"/", "f", "a", "m", "i", "l", "y", "/", "n", "t">>

s_family_os == <<"/", "f", "a", "m", "i", "l", "y", "/">>

s_size == <<"/", "s", "i", "z", "e">>

s_bold == <<"/", "b", "o", "l", "d">>

s_color == <<"/", "c", "o", "l", "o", "r">>

s_width == <<"/", "w", "i", "d", "t", "h">>

s_style == <<"/", "s", "t", "y", "l", "e">>

s_alphaF == <<"/", "a", "l", "p", "h", "a", "F">>

s_nt == <<"n", "t">>

s_posix == <<"p", "o", "s", "i", "x">>

s_title == <<"t", "i", "t", "l", "e">>

s_title_font == <<"t", "i", "t", "l", "e", "/", "f", "o", "n", "t">>

s_myfont == <<"m", "y", "f", "o", "n", "t">>

s_curve == <<"c", "u", "r", "v", "e">>

s_curve_pen == <<"c", "u", "r", "v", "e", "/", "p", "e", "n">>

s_open == <<"o", "p", "e", "n">>

s_fill == <<"f", "i", "l", "l">>

s_fill_brush == <<"f", "i", "l", "l", "/", "b", "r", "u", "s", "h">>

\* Python's "sub in s" on strings
Contains(sub, s) ==
    \E i \in 1..(Len(s) - Len(sub) + 1) : SubSeq(s, i, i + Len(sub) - 1) = sub

(***************************************************************************)
(* Values of the configuration store.  A font family entry is a string or  *)
(* a list of strings.                                                      *)
(***************************************************************************)
Str(x) == [t |-> "str", v |-> x]

List(x) == [t |-> "list", v |-> x]

PyNone == [t |-> "none", v |-> <<>>]

NoOptionError == [t |-> "NoOptionError", v |-> <<>>]

isinstance_list(x) == x.t = "list"

\* the configuration accessor: has-option and get-with-default, read-only
conf_has_option(section, option) == <<section, option>> \in DOMAIN conf

\* conf.get(section, option): NoOptionError when the option is missing
conf_get(section, option) ==
    IF <<section, option>> \in DOMAIN conf THEN conf[<<section, option>>]
    ELSE NoOptionError

\* conf.get(section, option, default)
conf_get_default(section, option, default) ==
    IF <<section, option>> \in DOMAIN conf THEN conf[<<section, option>>]
    ELSE default

(***************************************************************************)
(* The stores, installed font families and os.name values considered.      *)
(***************************************************************************)
EmptyStore == [k \in {} |-> 0]

Stores ==
    { EmptyStore,
      (<<"plot", s_font \o s_family>> :> List(<<"Foo", "Bar">>))
        @@ (<<"plot", s_font \o s_size>> :> 10)
        @@ (<<"plot", s_font \o s_bold>> :> TRUE),
      (<<"plot", s_title_font \o s_family_nt>> :> Str("Consolas"))
        @@ (<<"plot", s_title_font \o s_family_os \o s_posix>> :> Str("Mono"))
        @@ (<<"plot", s_title_font \o s_family>> :> List(<<"Bar", "Foo">>))
        @@ (<<"plot", s_title_font \o s_bold>> :> FALSE)
        @@ (<<"plot", s_myfont \o s_bold>> :> TRUE),
      (<<"plot", s_font \o s_family_nt>> :> Str("Consolas"))
        @@ (<<"plot", s_font \o s_family>> :> Str("Foo"))
        @@ (<<"misc", s_font \o s_bold>> :> TRUE)
        @@ (<<"plot", s_font \o s_size>> :> 12),
      (<<"plot", s_font \o s_family>> :> List(<<>>))
        @@ (<<"plot", s_title_font \o s_family>> :> Str("Bar"))
        @@ (<<"plot", s_title_font \o s_bold>> :> TRUE),
      (<<"plot", s_slash_pen \o s_color>> :> "red")
        @@ (<<"plot", s_slash_pen \o s_width>> :> 3)
        @@ (<<"plot", s_curve_pen \o s_style>> :> "DashLine")
        @@ (<<"plot", s_open \o s_color>> :> "blue")
        @@ (<<"plot", s_slash_brush \o s_color>> :> "blue")
        @@ (<<"plot", s_fill_brush \o s_alphaF>> :> 50),
      (<<"plot", s_curve_pen \o s_color>> :> "red")
        @@ (<<"plot", s_curve_pen \o s_width>> :> 2)
        @@ (<<"plot", s_curve_pen \o s_style>> :> "DotLine")
        @@ (<<"plot", s_slash_pen \o s_style>> :> "Wavy")
        @@ (<<"misc", s_slash_pen \o s_color>> :> "blue")
        @@ (<<"plot", s_fill_brush \o s_color>> :> "red")
        @@ (<<"plot", s_fill_brush \o s_alphaF>> :> 0)
        @@ (<<"misc", s_slash_brush \o s_alphaF>> :> 50) }

InstalledSets == { {}, {"Bar"}, {"Foo", "Bar"}, {"Mono", "Consolas"} }

OsNames == { s_nt, s_posix }

Sections == {"plot", "misc"}

FontOptions == { s_empty, s_font, s_title, s_title_font, s_myfont }

PenOptions == { s_empty, s_pen, s_curve, s_curve_pen, s_open }

BrushOptions == { s_empty, s_brush, s_fill, s_fill_brush }

FamilyArgs == { Str("Foo"), Str("Bar"), List(<<"Foo", "Bar">>), List(<<"Bar", "Foo">>),
                List(<<"Mono", "Foo">>), List(<<>>) }

(***************************************************************************)
(* Fonts.                                                                  *)
(***************************************************************************)
\* font_is_installed: the list of matching families is non-empty
font_is_installed(font) == font \in installed

\* get_family: the for/else loop over the candidate families
RECURSIVE get_family_loop(_, _)
get_family_loop(families, i) ==
    IF i > Len(families) THEN [family |-> "", warned |-> TRUE]
    ELSE IF font_is_installed(families[i]) THEN [family |-> families[i], warned |-> FALSE]
         ELSE get_family_loop(families, i + 1)

get_family_result(families) ==
    get_family_loop(IF isinstance_list(families) THEN families.v ELSE <<families.v>>, 1)

\* get_font: the for loop over the candidate families, which has no else branch;
\* family is the loop variable after the loop
RECURSIVE font_family_loop(_, _, _)
font_family_loop(families, i, family) ==
    IF i > Len(families) THEN [family |-> family, warned |-> FALSE]
    ELSE IF font_is_installed(families[i]) THEN [family |-> families[i], warned |-> FALSE]
         ELSE font_family_loop(families, i + 1, families[i])

\* the option name get_font reads its keys under
font_option(option) ==
    LET opt1 == IF option = s_empty THEN s_font ELSE option
    IN  IF ~Contains(s_font, opt1) THEN opt1 \o s_slash_font ELSE opt1

\* the family entry get_font reads
font_families(section, opt) ==
    IF conf_has_option(section, opt \o s_family_nt)
    THEN conf_get(section, opt \o s_family_os \o osname)
    ELSE IF conf_has_option(section, opt \o s_family)
         THEN conf_get(section, opt \o s_family)
         ELSE PyNone

\* font_weight as it would be if a missing bold key meant bold
font_weight_default_bold(section, opt) ==
    IF conf_get_default(section, opt \o s_bold, TRUE) THEN "Bold" ELSE "Normal"

\* the weight get_font sets
font_weight(section, opt) ==
    IF conf_get_default(section, opt \o s_bold, FALSE) THEN "Bold" ELSE "Normal"

\* QFont(): the application's default family and size, normal weight
QFont == [family |-> "default", pointSize |-> 0, weight |-> "Normal", setters |-> {}]

get_font_result(section, option) ==
    LET opt == font_option(option)
        families == font_families(section, opt)
        cands == IF isinstance_list(families) THEN families.v ELSE <<families.v>>
        sel == font_family_loop(cands, 1, None)
        font1 == IF families.t = "none" THEN QFont
                 ELSE [QFont EXCEPT !.family = sel.family, !.setters = @ \cup {"setFamily"}]
        font2 == IF conf_has_option(section, opt \o s_size)
                 THEN [font1 EXCEPT !.pointSize = conf_get(section, opt \o s_size),
                                    !.setters = @ \cup {"setPointSize"}]
                 ELSE font1
        font3 == [font2 EXCEPT !.weight = font_weight(section, opt),
                               !.setters = @ \cup {"setWeight"}]
    IN  IF families.t = "NoOptionError"
        THEN [exc |-> "NoOptionError", font |-> QFont, warned |-> FALSE,
              looked |-> FALSE, cands |-> <<>>]
        ELSE IF families.t # "none" /\ sel.family = None
             THEN [exc |-> "TypeError", font |-> QFont, warned |-> FALSE,
                   looked |-> TRUE, cands |-> cands]
             ELSE [exc |-> "none", font |-> font3,
                   warned |-> IF families.t = "none" THEN FALSE ELSE sel.warned,
                   looked |-> families.t # "none",
                   cands |-> IF families.t = "none" THEN <<>> ELSE cands]

(***************************************************************************)
(* Pens and brushes.                                                       *)
(***************************************************************************)
\* QColor(name): the colour of a known name, an invalid colour otherwise;
\* alpha is the 16-bit alpha channel
QColor(name) ==
    CASE name = "black" -> [valid |-> TRUE, rgb |-> <<0, 0, 0>>, alpha |-> 65535]
      [] name = "red"   -> [valid |-> TRUE, rgb |-> <<255, 0, 0>>, alpha |-> 65535]
      [] name = "blue"  -> [valid |-> TRUE, rgb |-> <<0, 0, 255>>, alpha |-> 65535]
      [] name = "green" -> [valid |-> TRUE, rgb |-> <<0, 128, 0>>, alpha |-> 65535]
      [] OTHER          -> [valid |-> FALSE, rgb |-> <<0, 0, 0>>, alpha |-> 65535]

\* QColor.setAlphaF; an alpha value a stands for a / 100
setAlphaF(color, a) == [color EXCEPT !.alpha = (a * 65535 + 50) \div 100]

\* getattr(QC.Qt, style_name): Qt.PenStyle, AttributeError (-1) otherwise
PenStyle(style_name) ==
    CASE style_name = "NoPen"     -> 0
      [] style_name = "SolidLine" -> 1
      [] style_name = "DashLine"  -> 2
      [] style_name = "DotLine"   -> 3
      [] OTHER                    -> -1

\* the parameters of get_pen and get_brush: the value the caller passes for a
\* keyword, and the literal default of the signature for one it leaves out
Passed == [color |-> "green", width |-> 2, style |-> "DashLine", alpha |-> 50]

Literal == [color |-> "black", width |-> 1, style |-> "SolidLine", alpha |-> 100]

param(passed, kw) == IF kw \in passed THEN Passed[kw] ELSE Literal[kw]

pen_option(option) == IF ~Contains(s_pen, option) THEN option \o s_slash_pen ELSE option

\* pen_width as it would be if the caller's default width were ignored
pen_width_literal(section, opt, width) == conf_get_default(section, opt \o s_width, 1)

pen_width(section, opt, width) == conf_get_default(section, opt \o s_width, width)

get_pen_result(section, option, color, width, style) ==
    LET opt == pen_option(option)
        color1 == QColor(conf_get_default(section, opt \o s_color, color))
        width1 == pen_width(section, opt, width)
        style_name == conf_get_default(section, opt \o s_style, style)
        style1 == PenStyle(style_name)
    IN  IF style1 = -1
        THEN [exc |-> "AttributeError", color |-> color1, width |-> 0, style |-> -1]
        ELSE [exc |-> "none", color |-> color1, width |-> width1, style |-> style1]

brush_option(option) == IF ~Contains(s_brush, option) THEN option \o s_slash_brush ELSE option

brush_alpha(section, opt, alpha) == conf_get_default(section, opt \o s_alphaF, alpha)

get_brush_result(section, option, color, alpha) ==
    LET opt == brush_option(option)
        color1 == QColor(conf_get_default(section, opt \o s_color, color))
        alpha1 == brush_alpha(section, opt, alpha)
    IN  [exc |-> "none", color |-> setAlphaF(color1, alpha1)]

(***************************************************************************)
(* The configuration operations.                                           *)
(***************************************************************************)
get_family ==
    \E families \in FamilyArgs :
        /\ lastconf' = [op |-> "get_family", families |-> families,
                        res |-> get_family_result(families)]
        /\ UNCHANGED <<conf, installed, osname>>

get_font ==
    \E section \in Sections, option \in FontOptions :
        /\ lastconf' = [op |-> "get_font", section |-> section, option |-> option,
                        res |-> get_font_result(section, option)]
        /\ UNCHANGED <<conf, installed, osname>>

get_pen ==
    \E section \in Sections, option \in PenOptions,
       passed \in SUBSET {"color", "width", "style"} :
        /\ lastconf' = [op |-> "get_pen", section |-> section, option |-> option,
                        passed |-> passed,
                        res |-> get_pen_result(section, option, param(passed, "color"),
                                               param(passed, "width"), param(passed, "style"))]
        /\ UNCHANGED <<conf, installed, osname>>

get_brush ==
    \E section \in Sections, option \in BrushOptions,
       passed \in SUBSET {"color", "alpha"} :
        /\ lastconf' = [op |-> "get_brush", section |-> section, option |-> option,
                        passed |-> passed,
                        res |-> get_brush_result(section, option, param(passed, "color"),
                                                 param(passed, "alpha"))]
        /\ UNCHANGED <<conf, installed, osname>>

ConfIdle ==
    /\ conf = EmptyStore
    /\ installed = {}
    /\ osname = s_posix
    /\ lastconf = [op |-> "init"]

ConfInit ==
    /\ conf \in Stores
    /\ installed \in InstalledSets
    /\ osname \in OsNames
    /\ lastconf = [op |-> "init"]

Init == ImgInit /\ ConfIdle

\* the registry and the resolution of image names
Next ==
    \/ add_image_path(AddPaths) /\ UNCHANGED confvars
    \/ add_image_module_path(Modules) /\ UNCHANGED confvars
    \/ call_get_image_file_path /\ UNCHANGED confvars
    \/ get_image_label /\ UNCHANGED confvars

Spec == Init /\ [][Next]_vars

\* all five image operations, with the icon cache
NextIcon ==
    \/ add_image_path(IconAddPaths) /\ UNCHANGED confvars
    \/ add_image_module_path(IconModules) /\ UNCHANGED confvars
    \/ call_get_image_file_path /\ UNCHANGED confvars
    \/ get_icon /\ UNCHANGED confvars
    \/ get_image_label /\ UNCHANGED confvars

SpecIcon == Init /\ [][NextIcon]_vars

\* fonts, pens and brushes built from a configuration store
InitConf == ImgInit /\ ConfInit

NextConf ==
    \/ get_family /\ UNCHANGED imgvars
    \/ get_font /\ UNCHANGED imgvars
    \/ get_pen /\ UNCHANGED imgvars
    \/ get_brush /\ UNCHANGED imgvars

SpecConf == InitConf /\ [][NextConf]_vars

(***************************************************************************)
(* Properties of the image path registry and of the resolution of names.   *)
(***************************************************************************)
\* the positions of the directories of imgp in which name is a file
Matches(imgp, name) == { i \in 1..Len(imgp) : abspath(imgp[i] \o <<name>>) \in Files }

Min(S) == CHOOSE x \in S : \A y \in S : x <= y

IsPrefix(a, b) == Len(a) <= Len(b) /\ SubSeq(b, 1, Len(a)) = a

Lookups == {"get_image_file_path", "get_image_label"}

\* C1: when name is a file in some registered directory, get_image_file_path
\* returns the absolute path of name in the earliest such directory, tests no
\* directory after it, and returns the same whatever default is and whatever
\* directories follow the first match.
C1_FirstMatchWins ==
    (last.op \in Lookups /\ Matches(IMG_PATH, last.name) # {}) =>
        LET k == Min(Matches(IMG_PATH, last.name))
        IN  /\ last.res.exc = "none"
            /\ last.res.path = abspath(IMG_PATH[k] \o <<last.name>>)
            /\ last.res.probed = k
            /\ last.res.calls = 0
            /\ \A d \in Defaults :
                 /\ get_image_file_path(IMG_PATH, last.name, d).path = last.res.path
                 /\ get_image_file_path(SubSeq(IMG_PATH, 1, k), last.name, d).path
                        = last.res.path

\* a lookup whose name is a file in two registered directories, the first of
\* which is not the first directory of the registry
C1_Witness ==
    /\ last.op = "get_image_file_path"
    /\ last.res.exc = "none"
    /\ last.res.probed >= 2
    /\ \E j \in Matches(IMG_PATH, last.name) :
         /\ j > last.res.probed
         /\ abspath(IMG_PATH[j] \o <<last.name>>) # last.res.path

\* C2: add_image_path appends, at the end of IMG_PATH, path and then (with
\* subfolders) each immediate subdirectory of path once, in the order of the
\* directory listing, and no plain file or deeper descendant; without
\* subfolders it appends path alone.  Entries already present are appended again.
C2_AppendsPathThenSubdirs ==
    (last.op \in {"add_image_path", "add_image_module_path"}) =>
        LET added == last.added
            sub == Tail(added)
            pos(e) == CHOOSE i \in 1..Len(last.listing) : last.listing[i] = e[Len(e)]
        IN  /\ IMG_PATH = last.before \o added
            /\ Len(added) >= 1 /\ added[1] = last.path
            /\ ~last.subfolders => added = <<last.path>>
            /\ last.subfolders =>
                 /\ \A i \in 1..Len(sub) :
                      /\ Len(sub[i]) = Len(last.path) + 1
                      /\ SubSeq(sub[i], 1, Len(last.path)) = last.path
                      /\ abspath(sub[i]) \in Dirs
                 /\ \A d \in Dirs :
                      (Len(d) = Len(abspath(last.path)) + 1
                         /\ SubSeq(d, 1, Len(d) - 1) = abspath(last.path))
                      => \E i \in 1..Len(sub) : abspath(sub[i]) = d
                 /\ \A i, j \in 1..Len(sub) : i < j => pos(sub[i]) < pos(sub[j])

\* a call with subfolders on a directory that is already registered and that
\* holds plain files besides a subdirectory
C2_Witness ==
    /\ last.op = "add_image_path"
    /\ last.subfolders
    /\ Len(last.added) >= 2
    /\ \E i \in 1..Len(last.before) : last.before[i] = last.path
    /\ \E i \in 1..Len(last.listing) : abspath(last.path \o <<last.listing[i]>>) \in Files

\* C4: when name is a file in no registered directory, get_image_file_path
\* makes one nested call for default: it returns the first match of default
\* when there is one, and raises RuntimeError when there is none or default is
\* None.  A returned path is always an existing file under a registered directory.
C4_FallbackOrError ==
    /\ (last.op \in Lookups /\ Matches(IMG_PATH, last.name) = {}) =>
          IF last.default # None /\ Matches(IMG_PATH, last.default) # {}
          THEN /\ last.res.exc = "none"
               /\ last.res.calls = 1
               /\ last.res.path =
                    abspath(IMG_PATH[Min(Matches(IMG_PATH, last.default))] \o <<last.default>>)
          ELSE /\ last.res.exc = "RuntimeError"
               /\ last.res.calls = IF last.default # None THEN 1 ELSE 0
    /\ (last.op \in Lookups /\ last.res.exc = "none") =>
          /\ last.res.path \in Files
          /\ \E i \in 1..Len(IMG_PATH), n \in {last.name, last.default} :
               last.res.path = abspath(IMG_PATH[i] \o <<n>>)

\* a lookup of a name found nowhere that returns the file of the fallback
C4_Witness ==
    /\ last.op = "get_image_file_path"
    /\ Matches(IMG_PATH, last.name) = {}
    /\ last.default # None
    /\ last.res.exc = "none"
    /\ last.res.resolved = last.default
    /\ last.res.calls = 1

\* C5: get_image_file_path makes at most one nested call; a name that is in no
\* registered directory and equals default ends with the RuntimeError of the
\* outer call, after exactly one nested call.
C5_AtMostOneNestedCall ==
    (last.op \in Lookups) =>
        /\ last.res.calls <= 1
        /\ (last.name = last.default /\ Matches(IMG_PATH, last.name) = {}) =>
              /\ last.res.exc = "RuntimeError"
              /\ last.res.calls = 1
              /\ last.res.msg = last.name

\* a lookup of the fallback name itself, found in no directory of a non-empty registry
C5_Witness ==
    /\ last.op = "get_image_file_path"
    /\ IMG_PATH # <<>>
    /\ last.name = last.default
    /\ last.res.exc = "RuntimeError"
    /\ last.res.calls = 1

\* C6: every operation leaves the previous IMG_PATH as a prefix of the new
\* one, and the lookup operations and get_icon leave IMG_PATH unchanged.
C6_RegistryOnlyGrows ==
    [][/\ IsPrefix(IMG_PATH, IMG_PATH')
       /\ last'.op \in (Lookups \cup {"get_icon"}) => IMG_PATH' = IMG_PATH]_vars

\* a registration made on a non-empty registry
C6_Witness ==
    /\ last.op \in {"add_image_path", "add_image_module_path"}
    /\ last.before # <<>>
    /\ Len(IMG_PATH) > Len(last.before)

(***************************************************************************)
(* Properties of the icon cache.                                           *)
(***************************************************************************)
\* C3: the icon get_icon first returned for a name stays in ICON_CACHE, is the
\* object every later get_icon call for that name returns, and is the only
\* icon built for that name.
C3_CachedIconIsIdentical ==
    /\ \A n \in Names : returned[n] # NoIcon => ICON_CACHE[n] = returned[n]
    /\ \A n \in Names : built[n] <= 1
    /\ (last.op = "get_icon" /\ last.res.exc = "none") => last.icon = returned[last.name]

\* a call answered from the cache although name now resolves to another file
C3_Witness ==
    /\ last.op = "get_icon"
    /\ last.icon # NoIcon
    /\ last.res.path = NoPath
    /\ get_image_file_path(IMG_PATH, last.name, last.default).exc = "none"
    /\ get_image_file_path(IMG_PATH, last.name, last.default).path # last.icon.file

\* C10: a get_icon call that raises leaves ICON_CACHE unchanged; a name is a
\* key of ICON_CACHE only if a get_icon call for it returned; a get_icon call
\* for a name that is a file in a registered directory succeeds, and when no
\* icon is cached for the name it builds the icon from the first match.
C10_FailedCallStoresNothing ==
    /\ [](\A n \in Names : ICON_CACHE[n] # NoIcon => returned[n] = ICON_CACHE[n])
    /\ []((last.op = "get_icon" /\ Matches(IMG_PATH, last.name) # {}) =>
            /\ last.res.exc = "none"
            /\ last.icon # NoIcon
            /\ last.icon.file # NoPath
            /\ last.res.path # NoPath =>
                 last.icon.file = abspath(IMG_PATH[Min(Matches(IMG_PATH, last.name))]
                                             \o <<last.name>>))
    /\ [][(last'.op = "get_icon" /\ last'.res.exc = "RuntimeError")
             => ICON_CACHE' = ICON_CACHE]_vars

\* a get_icon call that builds the icon of a name for which an earlier call raised
C10_Witness ==
    /\ last.op = "get_icon"
    /\ last.name \in failed
    /\ last.res.exc = "none"
    /\ last.res.resolved = last.name
    /\ last.icon.file = last.res.path

(***************************************************************************)
(* Properties of the font, pen and brush construction.  The entry a        *)
(* builder reads its keys under is option, followed by the builder's word  *)
(* ("font", "pen", "brush") unless that word already occurs in option; an  *)
(* empty option of get_font is the entry "font".                           *)
(***************************************************************************)
FontEntry(option) ==
    CASE option = s_empty      -> s_font
      [] option = s_font       -> s_font
      [] option = s_title      -> s_title_font
      [] option = s_title_font -> s_title_font
      [] option = s_myfont     -> s_myfont

PenEntry(option) ==
    CASE option = s_empty     -> s_slash_pen
      [] option = s_pen       -> s_pen
      [] option = s_curve     -> s_curve_pen
      [] option = s_curve_pen -> s_curve_pen
      [] option = s_open      -> s_open

BrushEntry(option) ==
    CASE option = s_empty      -> s_slash_brush
      [] option = s_brush      -> s_brush
      [] option = s_fill       -> s_fill_brush
      [] option = s_fill_brush -> s_fill_brush

\* the candidates of a family selection, and the first installed one
FirstInstalled(cands) ==
    cands[Min({ i \in 1..Len(cands) : cands[i] \in installed })]

NoneInstalled(cands) == \A i \in 1..Len(cands) : cands[i] \notin installed

\* C7: when no candidate family is installed, get_family and the family lookup
\* of get_font print a warning and select the empty family; otherwise both
\* select the first installed candidate.
C7_MissingFamilyWarnsAndIsEmpty ==
    /\ lastconf.op = "get_family" =>
         LET cands == IF lastconf.families.t = "list" THEN lastconf.families.v
                      ELSE <<lastconf.families.v>>
         IN  IF NoneInstalled(cands)
             THEN lastconf.res.warned /\ lastconf.res.family = ""
             ELSE ~lastconf.res.warned /\ lastconf.res.family = FirstInstalled(cands)
    /\ (lastconf.op = "get_font" /\ lastconf.res.exc = "none" /\ lastconf.res.looked) =>
         IF NoneInstalled(lastconf.res.cands)
         THEN lastconf.res.warned /\ lastconf.res.font.family = ""
         ELSE ~lastconf.res.warned
              /\ lastconf.res.font.family = FirstInstalled(lastconf.res.cands)

\* C8: the font get_font returns has its weight set by setWeight: Bold when
\* the bold key of the entry is true, Normal when the key is false or missing,
\* whatever the other keys are.
C8_WeightFromBoldKeyOnly ==
    (lastconf.op = "get_font" /\ lastconf.res.exc = "none") =>
        LET key == <<lastconf.section, FontEntry(lastconf.option) \o s_bold>>
        IN  /\ "setWeight" \in lastconf.res.font.setters
            /\ lastconf.res.font.weight =
                 IF key \in DOMAIN conf /\ conf[key] THEN "Bold" ELSE "Normal"

\* a bold font built from an entry that also has a family and a size
C8_Witness ==
    /\ lastconf.op = "get_font"
    /\ lastconf.res.exc = "none"
    /\ lastconf.res.font.weight = "Bold"
    /\ {"setFamily", "setPointSize"} \subseteq lastconf.res.font.setters
    /\ <<lastconf.section, FontEntry(lastconf.option) \o s_bold>> \in DOMAIN conf

\* C9: get_pen and get_brush take each attribute from the key of the entry
\* when the store has it and from the caller's default otherwise, the literal
\* default ('black', 1, 'SolidLine', 1.0) when the caller passes none; the
\* store is never modified.
C9_AttributesFromStoreOrDefault ==
    /\ []((lastconf.op = "get_pen" /\ lastconf.res.exc = "none") =>
            LET e == PenEntry(lastconf.option)
                has(k) == <<lastconf.section, e \o k>> \in DOMAIN conf
                val(k, kw, passed, literal) ==
                    IF has(k) THEN conf[<<lastconf.section, e \o k>>]
                    ELSE IF kw \in lastconf.passed THEN passed ELSE literal
            IN  /\ lastconf.res.color = QColor(val(s_color, "color", "green", "black"))
                /\ lastconf.res.width = val(s_width, "width", 2, 1)
                /\ lastconf.res.style = PenStyle(val(s_style, "style", "DashLine", "SolidLine"))
                /\ (lastconf.passed = {} /\ ~has(s_color) /\ ~has(s_width) /\ ~has(s_style)) =>
                     /\ lastconf.res.color = [valid |-> TRUE, rgb |-> <<0, 0, 0>>, alpha |-> 65535]
                     /\ lastconf.res.width = 1
                     /\ lastconf.res.style = 1)
    /\ [](lastconf.op = "get_brush" =>
            LET e == BrushEntry(lastconf.option)
                has(k) == <<lastconf.section, e \o k>> \in DOMAIN conf
                val(k, kw, passed, literal) ==
                    IF has(k) THEN conf[<<lastconf.section, e \o k>>]
                    ELSE IF kw \in lastconf.passed THEN passed ELSE literal
            IN  /\ lastconf.res.color.rgb = QColor(val(s_color, "color", "green", "black")).rgb
                /\ lastconf.res.color.alpha = (val(s_alphaF, "alpha", 50, 100) * 65535 + 50) \div 100
                /\ (lastconf.passed = {} /\ ~has(s_color) /\ ~has(s_alphaF)) =>
                     lastconf.res.color = [valid |-> TRUE, rgb |-> <<0, 0, 0>>, alpha |-> 65535])
    /\ [][conf' = conf]_vars

\* a pen whose colour comes from the store and whose width and style come from
\* the caller's defaults
C9_Witness ==
    /\ lastconf.op = "get_pen"
    /\ lastconf.res.exc = "none"
    /\ lastconf.passed = {"width", "style"}
    /\ <<lastconf.section, PenEntry(lastconf.option) \o s_color>> \in DOMAIN conf
    /\ <<lastconf.section, PenEntry(lastconf.option) \o s_width>> \notin DOMAIN conf
    /\ <<lastconf.section, PenEntry(lastconf.option) \o s_style>> \notin DOMAIN conf
    /\ lastconf.res.width = 2
    /\ lastconf.res.style = 2

====
